---- MODULE Spec2Model ----
(***************************************************************************)
(* State-machine model of the_snake.py: the Snake and Apple objects, the   *)
(* event loop of handle_keys and the tick loop of main.                    *)
(*                                                                         *)
(* Positions are pixel pairs <<x, y>> as in the source (multiples of       *)
(* GRID_SIZE).  The size of the display surface is the state component     *)
(* screen_size; it never changes.  Specification Spec runs the whole game  *)
(* on a surface scaled down to 2*HalfCols x 2*HalfRows cells; the other    *)
(* specifications run single operations, SpecMove on the 640x480 surface   *)
(* of the source.                                                          *)
(***************************************************************************)
EXTENDS Integers, Sequences, FiniteSets, TLC

VARIABLES
    screen_size,        \* size of the surface `screen`: <<width, height>>
    positions,          \* Snake.positions, head first
    direction,          \* Snake.direction
    next_direction,     \* Snake.next_direction, or None
    last,               \* Snake.last, or None
    grew,               \* Snake.grew
    apple_position,     \* Apple.position
    occupied_positions, \* Apple.occupied_positions
    events,             \* the events queued for the next pg.event.get()
    ate,                \* main: value of the test of line 194 when last evaluated
    collided,           \* main: value of the test of line 199 when last evaluated
    draws,              \* the draw requests of this tick's frame, in order
    pc,                 \* program position
    ret                 \* where randomize_position returns to

vars == <<screen_size, positions, direction, next_direction, last, grew,
          apple_position, occupied_positions, events, ate, collided,
          draws, pc, ret>>

snakeVars == <<positions, direction, next_direction, last, grew>>
appleVars == <<apple_position, occupied_positions>>

-----------------------------------------------------------------------------
(* Constants of the source *)

SCREEN_WIDTH == 640
SCREEN_HEIGHT == 480
GRID_SIZE == 20

UP == <<0, -1>>
DOWN == <<0, 1>>
LEFT == <<-1, 0>>
RIGHT == <<1, 0>>

BOARD_BACKGROUND_COLOR == <<0, 0, 0>>
BORDER_COLOR == <<93, 216, 228>>
APPLE_COLOR == <<255, 0, 0>>
SNAKE_COLOR == <<0, 255, 0>>

None == <<>>

Directions == {UP, DOWN, LEFT, RIGHT}

(* Bounds of the model *)

HalfCols == 2
HalfRows == 1
MaxLen == 3
WideLen == 4
WidePoll == 2
LongLen == 5
MaxPoll == 1
MaxEvents == 3
MaxBody == 3
RelocCols == 3
RelocRows == 2

-----------------------------------------------------------------------------
(* Grid geometry, from the size of the surface *)

Width == screen_size[1]
Height == screen_size[2]
GRID_WIDTH == Width \div GRID_SIZE
GRID_HEIGHT == Height \div GRID_SIZE

\* the values (randint(0, GRID_WIDTH - 1) * GRID_SIZE, randint(0, GRID_HEIGHT - 1) * GRID_SIZE)
\* on a surface of the given size
Cells(size) ==
    {<<i * GRID_SIZE, j * GRID_SIZE>> :
        i \in 0..((size[1] \div GRID_SIZE) - 1), j \in 0..((size[2] \div GRID_SIZE) - 1)}

RandomPositions == Cells(screen_size)

\* GameObject.__init__: the initial position of every game object
CenterPosition(size) == <<size[1] \div 2, size[2] \div 2>>

\* Python truth value of a direction or position that may be None
Truthy(v) == v # None

-----------------------------------------------------------------------------
(* Snake *)

Range(seq) == {seq[i] : i \in 1..Len(seq)}

\* Snake.get_head_position
get_head_position(ps) == ps[1]

\* mutant of reset: the snake restarts on the top-left cell
reset_at_origin(size) ==
    [positions |-> << <<0, 0>> >>,
     direction |-> RIGHT,
     next_direction |-> None,
     last |-> None,
     grew |-> FALSE]

\* Snake.reset: the fields it assigns
reset(size) ==
    [positions |-> << CenterPosition(size) >>,
     direction |-> RIGHT,
     next_direction |-> None,
     last |-> None,
     grew |-> FALSE]

\* mutant of update_direction: the pending direction is not cleared
update_direction_keeps_pending(dir, nd) ==
    IF Truthy(nd) THEN <<nd, nd>> ELSE <<dir, nd>>

\* Snake.update_direction: the new <<direction, next_direction>>
update_direction(dir, nd) ==
    IF Truthy(nd) THEN <<nd, None>> ELSE <<dir, nd>>

\* mutant of new_head: no wrap at the edges
new_head_no_wrap(head, dir, size) ==
    << head[1] + dir[1] * GRID_SIZE, head[2] + dir[2] * GRID_SIZE >>

\* Snake.move, lines 119-123: the new head
new_head(head, dir, size) ==
    << (head[1] + dir[1] * GRID_SIZE) % size[1],
       (head[2] + dir[2] * GRID_SIZE) % size[2] >>

\* mutant of move: the tail is popped even when the snake grew
move_always_pops(ps, dir, g, size) ==
    LET inserted == << new_head(get_head_position(ps), dir, size) >> \o ps
    IN  [positions |-> SubSeq(inserted, 1, Len(inserted) - 1),
         last |-> inserted[Len(inserted)],
         grew |-> FALSE]

\* Snake.move: insert the new head, pop the tail unless grew, clear grew
move(ps, dir, g, size) ==
    LET inserted == << new_head(get_head_position(ps), dir, size) >> \o ps
    IN  [positions |-> IF ~g THEN SubSeq(inserted, 1, Len(inserted) - 1) ELSE inserted,
         last |-> IF ~g THEN inserted[Len(inserted)] ELSE None,
         grew |-> IF g THEN FALSE ELSE g]

\* Snake.grow: the new value of grew
grow == TRUE

\* mutant of check_collision: the slice positions[:-1], which holds the head
check_collision_wrong_slice(ps) ==
    get_head_position(ps) \in Range(SubSeq(ps, 1, Len(ps) - 1))

\* mutant of check_collision: head in positions[3:]
check_collision_from_fourth(ps) ==
    get_head_position(ps) \in Range(SubSeq(ps, 4, Len(ps)))

\* Snake.check_collision: head in positions[1:]
check_collision(ps) == get_head_position(ps) \in Range(SubSeq(ps, 2, Len(ps)))

-----------------------------------------------------------------------------
(* Drawing: a draw request is the rectangle's position, its colour and the  *)
(* width argument of pg.draw.rect (0: filled, 1: outline)                    *)

Request(p, c, w) == [position |-> p, color |-> c, width |-> w]

\* GameObject.draw_cell
draw_cell(p, c) == << Request(p, c, 0), Request(p, BORDER_COLOR, 1) >>

\* Apple.draw
apple_draw(p) == draw_cell(p, APPLE_COLOR)

\* Snake.draw, lines 137-138: draw_cell for each position of positions[:-1]
draw_segments(ps) ==
    [k \in 1..(2 * (Len(ps) - 1)) |-> draw_cell(ps[(k + 1) \div 2], SNAKE_COLOR)[2 - (k % 2)]]

\* Snake.draw
snake_draw(ps, lst, g) ==
    draw_segments(ps)
    \o << Request(get_head_position(ps), SNAKE_COLOR, 0),
          Request(get_head_position(ps), BORDER_COLOR, 1) >>
    \o (IF Truthy(lst) /\ ~g THEN << Request(lst, BOARD_BACKGROUND_COLOR, 0) >> ELSE << >>)

-----------------------------------------------------------------------------
(* Events of pg.event.get() *)

Keys == {"K_UP", "K_DOWN", "K_LEFT", "K_RIGHT"}

Event(t, k) == [type |-> t, key |-> k]

EventKinds ==
    {Event("QUIT", "")} \cup {Event("KEYDOWN", k) : k \in Keys} \cup {Event("KEYUP", "K_UP")}

SeqsUpTo(S, n) == UNION {[1..k -> S] : k \in 0..n}

\* mutant of handle_keydown: the opposite direction is accepted
handle_keydown_any(key, dir, nd) ==
    IF key = "K_UP" THEN UP
    ELSE IF key = "K_DOWN" THEN DOWN
    ELSE IF key = "K_LEFT" THEN LEFT
    ELSE IF key = "K_RIGHT" THEN RIGHT
    ELSE nd

\* handle_keys, lines 163-170: next_direction after one KEYDOWN event
handle_keydown(key, dir, nd) ==
    IF key = "K_UP" /\ dir # DOWN THEN UP
    ELSE IF key = "K_DOWN" /\ dir # UP THEN DOWN
    ELSE IF key = "K_LEFT" /\ dir # RIGHT THEN LEFT
    ELSE IF key = "K_RIGHT" /\ dir # LEFT THEN RIGHT
    ELSE nd

\* mutant of handle_keys: the events after a QUIT are still handled
RECURSIVE handle_keys_quit_deferred(_, _, _)
handle_keys_quit_deferred(evs, dir, nd) ==
    IF evs = << >> THEN [next_direction |-> nd, quit |-> FALSE]
    ELSE IF Head(evs).type = "QUIT"
         THEN [next_direction |-> handle_keys_quit_deferred(Tail(evs), dir, nd).next_direction,
               quit |-> TRUE]
    ELSE IF Head(evs).type = "KEYDOWN"
         THEN handle_keys_quit_deferred(Tail(evs), dir, handle_keydown(Head(evs).key, dir, nd))
         ELSE handle_keys_quit_deferred(Tail(evs), dir, nd)

\* mutant of handle_keys: a pending direction is not overwritten
RECURSIVE handle_keys_first_wins(_, _, _)
handle_keys_first_wins(evs, dir, nd) ==
    IF evs = << >> THEN [next_direction |-> nd, quit |-> FALSE]
    ELSE IF Head(evs).type = "QUIT" THEN [next_direction |-> nd, quit |-> TRUE]
    ELSE IF Head(evs).type = "KEYDOWN" /\ nd = None
         THEN handle_keys_first_wins(Tail(evs), dir, handle_keydown(Head(evs).key, dir, nd))
         ELSE handle_keys_first_wins(Tail(evs), dir, nd)

\* handle_keys: the for loop over the events; quit when SystemExit is raised
RECURSIVE handle_keys(_, _, _)
handle_keys(evs, dir, nd) ==
    IF evs = << >> THEN [next_direction |-> nd, quit |-> FALSE]
    ELSE IF Head(evs).type = "QUIT" THEN [next_direction |-> nd, quit |-> TRUE]
    ELSE IF Head(evs).type = "KEYDOWN"
         THEN handle_keys(Tail(evs), dir, handle_keydown(Head(evs).key, dir, nd))
         ELSE handle_keys(Tail(evs), dir, nd)

-----------------------------------------------------------------------------
(* Actions *)

\* mutant of not_occupied: the occupied positions are not looked at
not_occupied_unchecked(p, occupied) == TRUE

\* mutant of not_occupied: the test is inverted
not_occupied_inverted(p, occupied) == p \in Range(occupied)

\* Apple.randomize_position, line 81: the test that leaves the loop
not_occupied(p, occupied) == p \notin Range(occupied)

\* Apple.randomize_position, lines 76-82: one iteration of the while loop
RandomizeIteration ==
    /\ pc = "randomize_position"
    /\ \E p \in RandomPositions :
          /\ apple_position' = p
          /\ pc' = IF not_occupied(p, occupied_positions) THEN ret ELSE pc
    /\ UNCHANGED <<screen_size, snakeVars, occupied_positions, events, ate, collided,
                   draws, ret>>

\* the iteration that leaves the loop
RandomizeBreak == RandomizeIteration /\ pc' # pc

\* main, lines 182-185: the next tick; handle_keys on the events evs that
\* pg.event.get() returns, which leaves the events `left` queued
HandleKeysOn(evs, left) ==
    /\ pc = "handle_keys"
    /\ LET h == handle_keys(evs, direction, next_direction) IN
          /\ next_direction' = h.next_direction
          /\ pc' = IF h.quit THEN "exited" ELSE "update_direction"
    /\ draws' = << >>
    /\ events' = left
    /\ UNCHANGED <<screen_size, positions, direction, last, grew, appleVars,
                   ate, collided, ret>>

\* the same, the queue being left as it is
HandleKeys(evs) == HandleKeysOn(evs, events)

\* the next tick of main, on any list of up to maxpoll events, as long as the
\* body stays within maxlen cells
TickWithin(maxlen, maxpoll) ==
    /\ Len(positions) + (IF grew THEN 1 ELSE 0) <= maxlen
    /\ \E evs \in SeqsUpTo(EventKinds, maxpoll) : HandleKeys(evs)

\* main, line 188
UpdateDirection ==
    /\ pc = "update_direction"
    /\ direction' = update_direction(direction, next_direction)[1]
    /\ next_direction' = update_direction(direction, next_direction)[2]
    /\ pc' = "move"
    /\ UNCHANGED <<screen_size, positions, last, grew, appleVars, events, ate,
                   collided, draws, ret>>

\* Snake.move on the snake of the state.  Apple.occupied_positions is the
\* list object snake.positions (lines 179, 196, 201), so it sees the insert
\* and the pop.
SnakeMove ==
    LET m == move(positions, direction, grew, screen_size) IN
    /\ positions' = m.positions
    /\ last' = m.last
    /\ grew' = m.grew
    /\ occupied_positions' = m.positions
    /\ UNCHANGED <<direction, next_direction>>

\* main, line 191
Move ==
    /\ pc = "move"
    /\ SnakeMove
    /\ pc' = "check_apple"
    /\ UNCHANGED <<screen_size, apple_position, events, ate, collided, draws, ret>>

\* mutant of CheckApple: the food is relocated in every tick
CheckAppleAlwaysRelocates ==
    /\ pc = "check_apple"
    /\ ate' = (get_head_position(positions) = apple_position)
    /\ grew' = IF ate' THEN grow ELSE grew
    /\ occupied_positions' = positions
    /\ pc' = "randomize_position"
    /\ ret' = "check_collision"
    /\ UNCHANGED <<screen_size, positions, direction, next_direction, last,
                   apple_position, events, collided, draws>>

\* mutant of CheckApple: the eaten food is not relocated
CheckAppleNoRelocate ==
    /\ pc = "check_apple"
    /\ ate' = (get_head_position(positions) = apple_position)
    /\ grew' = IF ate' THEN grow ELSE grew
    /\ pc' = "check_collision"
    /\ UNCHANGED <<screen_size, positions, direction, next_direction, last,
                   appleVars, events, collided, draws, ret>>

\* main, lines 194-196
CheckApple ==
    /\ pc = "check_apple"
    /\ ate' = (get_head_position(positions) = apple_position)
    /\ IF ate'
       THEN /\ grew' = grow
            /\ occupied_positions' = positions
            /\ pc' = "randomize_position"
            /\ ret' = "check_collision"
       ELSE /\ pc' = "check_collision"
            /\ UNCHANGED <<grew, occupied_positions, ret>>
    /\ UNCHANGED <<screen_size, positions, direction, next_direction, last,
                   apple_position, events, collided, draws>>

\* mutant of CheckCollision: the food is not relocated after the reset
CheckCollisionNoRelocate ==
    /\ pc = "check_collision"
    /\ collided' = check_collision(positions)
    /\ IF collided'
       THEN LET r == reset(screen_size) IN
            /\ positions' = r.positions
            /\ direction' = r.direction
            /\ next_direction' = r.next_direction
            /\ last' = r.last
            /\ grew' = r.grew
            /\ occupied_positions' = r.positions
       ELSE UNCHANGED <<snakeVars, occupied_positions>>
    /\ pc' = "draw"
    /\ UNCHANGED <<screen_size, apple_position, events, ate, draws, ret>>

\* main, lines 199-201
CheckCollision ==
    /\ pc = "check_collision"
    /\ collided' = check_collision(positions)
    /\ IF collided'
       THEN LET r == reset(screen_size) IN
            /\ positions' = r.positions
            /\ direction' = r.direction
            /\ next_direction' = r.next_direction
            /\ last' = r.last
            /\ grew' = r.grew
            /\ occupied_positions' = r.positions
            /\ pc' = "randomize_position"
            /\ ret' = "draw"
       ELSE /\ pc' = "draw"
            /\ UNCHANGED <<snakeVars, occupied_positions, ret>>
    /\ UNCHANGED <<screen_size, apple_position, events, ate, draws>>

\* main, lines 204-207: fill, apple.draw, snake.draw, display.update
Draw ==
    /\ pc = "draw"
    /\ draws' = apple_draw(apple_position) \o snake_draw(positions, last, grew)
    /\ pc' = "handle_keys"
    /\ UNCHANGED <<screen_size, snakeVars, appleVars, events, ate, collided, ret>>

-----------------------------------------------------------------------------
(* The game: main() from the construction of the snake and of the apple *)

\* main, lines 178-179, up to the call of randomize_position in Apple.__init__
InitOn(size) ==
    /\ screen_size = size
    /\ positions = reset(size).positions
    /\ direction = reset(size).direction
    /\ next_direction = reset(size).next_direction
    /\ last = reset(size).last
    /\ grew = reset(size).grew
    /\ apple_position = CenterPosition(size)
    /\ occupied_positions = reset(size).positions
    /\ events = << >>
    /\ ate = FALSE
    /\ collided = FALSE
    /\ draws = << >>
    /\ pc = "randomize_position"
    /\ ret = "handle_keys"

Init == InitOn(<<2 * HalfCols * GRID_SIZE, 2 * HalfRows * GRID_SIZE>>)

Next ==
    \/ RandomizeIteration
    \/ TickWithin(MaxLen, MaxPoll)
    \/ UpdateDirection
    \/ Move
    \/ CheckApple
    \/ CheckCollision
    \/ Draw

Spec == Init /\ [][Next]_vars

-----------------------------------------------------------------------------
(* The game on a surface of 4x4 cells, the smallest grid with both          *)
(* dimensions >= 4 (and >= 3) whose centre pixel is on the grid, with bodies *)
(* of up to WideLen cells and up to WidePoll events a tick                   *)

InitWide == InitOn(<<4 * GRID_SIZE, 4 * GRID_SIZE>>)

NextWide ==
    \/ RandomizeIteration
    \/ TickWithin(WideLen, WidePoll)
    \/ UpdateDirection
    \/ Move
    \/ CheckApple
    \/ CheckCollision
    \/ Draw

SpecWide == InitWide /\ [][NextWide]_vars

-----------------------------------------------------------------------------
(* The game on the surface of 4x4 cells with bodies of up to LongLen cells, *)
(* long enough to collide with themselves                                    *)

NextLong ==
    \/ RandomizeIteration
    \/ TickWithin(LongLen, MaxPoll)
    \/ UpdateDirection
    \/ Move
    \/ CheckApple
    \/ CheckCollision
    \/ Draw

SpecLong == InitWide /\ [][NextLong]_vars

-----------------------------------------------------------------------------
(* The game on a surface of 2x2 cells, with bodies of up to all its cells *)

InitSmall == InitOn(<<2 * GRID_SIZE, 2 * GRID_SIZE>>)

NextSmall ==
    \/ RandomizeIteration
    \/ TickWithin(GRID_WIDTH * GRID_HEIGHT, MaxPoll)
    \/ UpdateDirection
    \/ Move
    \/ CheckApple
    \/ CheckCollision
    \/ Draw

SpecSmall == InitSmall /\ [][NextSmall]_vars

-----------------------------------------------------------------------------
(* Snake.move alone, on the 640x480 surface of the source: a snake of one   *)
(* cell anywhere on the grid, moving in any direction, about to grow or not *)

InitMove ==
    /\ screen_size = <<SCREEN_WIDTH, SCREEN_HEIGHT>>
    /\ \E p \in Cells(screen_size) : positions = << p >>
    /\ direction \in Directions
    /\ next_direction = None
    /\ last = None
    /\ grew \in BOOLEAN
    /\ apple_position = CenterPosition(screen_size)
    /\ occupied_positions = positions
    /\ events = << >>
    /\ ate = FALSE
    /\ collided = FALSE
    /\ draws = << >>
    /\ pc = "move"
    /\ ret = "handle_keys"

Advance ==
    /\ pc = "move"
    /\ SnakeMove
    /\ UNCHANGED <<screen_size, apple_position, events, ate, collided, draws, pc, ret>>

NextMove == Advance

SpecMove == InitMove /\ [][NextMove]_vars

-----------------------------------------------------------------------------
(* handle_keys, update_direction and move on given events: a snake of one   *)
(* cell moving in any direction, any events queued for pg.event.get()       *)

InitKeys ==
    /\ screen_size = <<2 * HalfCols * GRID_SIZE, 2 * HalfRows * GRID_SIZE>>
    /\ \E p \in Cells(screen_size) : positions = << p >>
    /\ direction \in Directions
    /\ next_direction = None
    /\ last = None
    /\ grew = FALSE
    /\ apple_position = CenterPosition(screen_size)
    /\ occupied_positions = positions
    /\ events \in SeqsUpTo(EventKinds, MaxEvents)
    /\ ate = FALSE
    /\ collided = FALSE
    /\ draws = << >>
    /\ pc = "handle_keys"
    /\ ret = "handle_keys"

NextKeys ==
    \/ HandleKeys(events)
    \/ UpdateDirection
    \/ Move

SpecKeys == InitKeys /\ [][NextKeys]_vars

-----------------------------------------------------------------------------
(* The game from its first tick, with any list of up to MaxEvents events    *)
(* queued for the first pg.event.get() and none arriving later              *)

InitQueued ==
    /\ screen_size = <<2 * HalfCols * GRID_SIZE, 2 * HalfRows * GRID_SIZE>>
    /\ positions = reset(screen_size).positions
    /\ direction = reset(screen_size).direction
    /\ next_direction = reset(screen_size).next_direction
    /\ last = reset(screen_size).last
    /\ grew = reset(screen_size).grew
    /\ apple_position \in Cells(screen_size) \ Range(positions)
    /\ occupied_positions = positions
    /\ events \in SeqsUpTo(EventKinds, MaxEvents)
    /\ ate = FALSE
    /\ collided = FALSE
    /\ draws = << >>
    /\ pc = "handle_keys"
    /\ ret = "handle_keys"

\* the next tick: pg.event.get() empties the queue
TickQueued ==
    /\ Len(positions) + (IF grew THEN 1 ELSE 0) <= MaxLen
    /\ HandleKeysOn(events, << >>)

NextQueued ==
    \/ RandomizeIteration
    \/ TickQueued
    \/ UpdateDirection
    \/ Move
    \/ CheckApple
    \/ CheckCollision
    \/ Draw

SpecQueued == InitQueued /\ [][NextQueued]_vars

-----------------------------------------------------------------------------
(* Snake.check_collision on any list of up to MaxBody positions *)

InitCollision ==
    /\ screen_size = <<2 * HalfCols * GRID_SIZE, 2 * HalfRows * GRID_SIZE>>
    /\ positions \in SeqsUpTo(Cells(screen_size), MaxBody) \ {<< >>}
    /\ direction \in Directions
    /\ next_direction = None
    /\ last = None
    /\ grew = FALSE
    /\ apple_position = CenterPosition(screen_size)
    /\ occupied_positions = positions
    /\ events = << >>
    /\ ate = FALSE
    /\ collided = FALSE
    /\ draws = << >>
    /\ pc = "check_collision"
    /\ ret = "handle_keys"

NextCollision == CheckCollision

SpecCollision == InitCollision /\ [][NextCollision]_vars

-----------------------------------------------------------------------------
(* Apple.randomize_position alone: any set of occupied positions on a       *)
(* RelocCols x RelocRows grid.  randint is uniform, so the iteration that   *)
(* draws a free position cannot stay enabled for ever without happening.    *)

RECURSIVE SetToSeq(_)
SetToSeq(S) ==
    IF S = {} THEN << >>
    ELSE LET x == CHOOSE x \in S : TRUE IN << x >> \o SetToSeq(S \ {x})

InitReloc ==
    /\ screen_size = <<RelocCols * GRID_SIZE, RelocRows * GRID_SIZE>>
    /\ positions = reset(screen_size).positions
    /\ direction = reset(screen_size).direction
    /\ next_direction = reset(screen_size).next_direction
    /\ last = reset(screen_size).last
    /\ grew = reset(screen_size).grew
    /\ apple_position = CenterPosition(screen_size)
    /\ \E S \in SUBSET Cells(screen_size) : occupied_positions = SetToSeq(S)
    /\ events = << >>
    /\ ate = FALSE
    /\ collided = FALSE
    /\ draws = << >>
    /\ pc = "randomize_position"
    /\ ret = "returned"

NextReloc == RandomizeIteration

SpecReloc == InitReloc /\ [][NextReloc]_vars /\ WF_vars(RandomizeBreak)

-----------------------------------------------------------------------------
(* Properties *)

HeadPos == positions[1]
GridCenter == <<(GRID_WIDTH \div 2) * GRID_SIZE, (GRID_HEIGHT \div 2) * GRID_SIZE>>
Cell(p) == <<p[1] \div GRID_SIZE, p[2] \div GRID_SIZE>>
Opposite(d) == <<0 - d[1], 0 - d[2]>>

\* the step of main that finds a self-collision and calls Snake.reset
ResetStep == pc = "check_collision" /\ collided'

\* C1: the body has at least one cell in every reachable state of the game
\* loop; immediately after Snake.reset the body is exactly the one cell at
\* the grid centre, which is cell (16,12), pixel (320,240), on the 640x480
\* surface.
C1_BodyNonEmptyResetCentre ==
    /\ [](Len(positions) >= 1)
    /\ [][ResetStep => positions' = << GridCenter >>]_vars
    /\ [](reset(<<SCREEN_WIDTH, SCREEN_HEIGHT>>).positions
             = << <<16 * GRID_SIZE, 12 * GRID_SIZE>> >>
          /\ <<16 * GRID_SIZE, 12 * GRID_SIZE>> = <<320, 240>>)

\* C1 witness: a self-collision has just reset a longer body to the centre
C1_Witness ==
    /\ pc = "randomize_position"
    /\ ret = "draw"
    /\ collided
    /\ positions = << GridCenter >>

\* Snake.move applied n times with no growth and no change of direction
RECURSIVE Advances(_, _, _, _)
Advances(ps, dir, size, n) ==
    IF n = 0 THEN ps ELSE Advances(move(ps, dir, FALSE, size).positions, dir, size, n - 1)

\* C2: Snake.move is toroidal: on the 32x24 grid the new head cell is
\* ((x+dx) mod 32, (y+dy) mod 24) for every head cell and direction, on the
\* same row or column when an edge is crossed, every body cell stays on the
\* grid, and 16 advances to the right from [(16,12)] end on [(0,12)].
C2_MoveToroidal ==
    /\ [](GRID_WIDTH = 32 /\ GRID_HEIGHT = 24)
    /\ [][pc = "move" =>
            /\ Cell(positions'[1]) = << (Cell(HeadPos)[1] + direction[1]) % 32,
                                        (Cell(HeadPos)[2] + direction[2]) % 24 >>
            /\ positions'[1] = << Cell(positions'[1])[1] * GRID_SIZE,
                                  Cell(positions'[1])[2] * GRID_SIZE >>
            /\ (direction[1] = 0 => positions'[1][1] = HeadPos[1])
            /\ (direction[2] = 0 => positions'[1][2] = HeadPos[2])]_vars
    /\ [](\A i \in 1..Len(positions) :
             /\ Cell(positions[i])[1] \in 0..31
             /\ Cell(positions[i])[2] \in 0..23
             /\ positions[i] \in RandomPositions)
    /\ [](Advances(<< <<16 * GRID_SIZE, 12 * GRID_SIZE>> >>, RIGHT, screen_size, 16)
             = << <<0, 12 * GRID_SIZE>> >>)

\* C2 witness: the head left the right edge and re-entered on column 0 of
\* the same row
C2_Witness ==
    /\ direction = RIGHT
    /\ Len(positions) = 1
    /\ last = <<31 * GRID_SIZE, 12 * GRID_SIZE>>
    /\ HeadPos = <<0, 12 * GRID_SIZE>>

KeyOf(d) ==
    IF d = UP THEN "K_UP" ELSE IF d = DOWN THEN "K_DOWN"
    ELSE IF d = LEFT THEN "K_LEFT" ELSE "K_RIGHT"

\* the only queued event is the key of the direction opposite to the
\* committed direction
OppositeKeyQueued == events = << Event("KEYDOWN", KeyOf(Opposite(direction))) >>

\* C3: with committed direction d and no pending direction, a key event for
\* the opposite of d leaves the pending direction unset, the commit keeps d
\* and the next advance moves the head one cell in direction d.
C3_OppositeRejected ==
    /\ [][(pc = "handle_keys" /\ next_direction = None /\ OppositeKeyQueued) =>
            (next_direction' = None /\ direction' = direction
             /\ pc' = "update_direction")]_vars
    /\ [][(pc = "update_direction" /\ OppositeKeyQueued) =>
            (next_direction' = None /\ direction' = direction)]_vars
    /\ [][(pc = "move" /\ OppositeKeyQueued) =>
            positions'[1] = << (HeadPos[1] + direction[1] * GRID_SIZE) % Width,
                               (HeadPos[2] + direction[2] * GRID_SIZE) % Height >>]_vars
    /\ [](OppositeKeyQueued => next_direction = None)

\* C3 witness: moving up, the down key was pressed and the head advanced up
C3_Witness ==
    /\ pc = "check_apple"
    /\ direction = UP
    /\ events = << Event("KEYDOWN", "K_DOWN") >>
    /\ Truthy(last)
    /\ HeadPos = new_head(last, UP, screen_size)

\* C4: when the advance of a tick puts the head on the food (and that tick
\* does not reset), the next advance yields the new head followed by all the
\* previous cells, one cell longer, and the growth flag is false after it;
\* [(5,5)] moving right with food at (6,5) becomes [(6,5)], then [(7,5),(6,5)].
C4_GrowthPerEat ==
    /\ [][(pc = "check_apple" /\ HeadPos = apple_position) => (ate' /\ grew')]_vars
    /\ [][(pc = "move" /\ ate /\ ~collided) =>
            /\ Len(positions') = Len(positions) + 1
            /\ SubSeq(positions', 2, Len(positions')) = positions
            /\ positions'[1] = new_head(HeadPos, direction, screen_size)
            /\ grew' = FALSE]_vars
    /\ [](LET full == <<SCREEN_WIDTH, SCREEN_HEIGHT>>
              first == move(<< <<5 * GRID_SIZE, 5 * GRID_SIZE>> >>, RIGHT, FALSE, full)
              second == move(first.positions, RIGHT, grow, full)
          IN  /\ first.positions = << <<6 * GRID_SIZE, 5 * GRID_SIZE>> >>
              /\ second.positions = << <<7 * GRID_SIZE, 5 * GRID_SIZE>>,
                                       <<6 * GRID_SIZE, 5 * GRID_SIZE>> >>
              /\ second.grew = FALSE)

\* C4 witness: the advance after an eat has just kept the tail of a body
\* that had two cells
C4_Witness ==
    /\ pc = "check_apple"
    /\ ate
    /\ ~collided
    /\ Len(positions) = 3
    /\ last = None
    /\ ~grew

\* C5: whenever randomize_position returns (at creation, after an eat, after
\* a reset) the food is on the grid and on no cell of the body of that
\* moment.
C5_FoodOffBody ==
    [][(pc = "randomize_position" /\ pc' # "randomize_position") =>
          /\ apple_position' \in RandomPositions
          /\ \A i \in 1..Len(positions') : positions'[i] # apple_position']_vars

\* C5 witness: the relocation after an eat has returned with a body of two
\* cells
C5_Witness ==
    /\ pc = "check_collision"
    /\ ate
    /\ Len(positions) = 2
    /\ apple_position \notin Range(positions)

\* the head cell equals some cell of the body at index >= 1 (from 0)
HeadRepeats(ps) == \E i \in 2..Len(ps) : ps[i] = ps[1]

AllDistinct(ps) == \A i, j \in 1..Len(ps) : i # j => ps[i] # ps[j]

\* C6: check_collision is true exactly when the head cell equals a cell at
\* index >= 1; a body whose head repeats a later cell gives true, a body of
\* distinct cells (a one-cell body included) gives false.
C6_CollisionIffHeadRepeats ==
    [][pc = "check_collision" =>
          /\ collided' <=> HeadRepeats(positions)
          /\ AllDistinct(positions) => ~collided'
          /\ Len(positions) = 1 => ~collided']_vars

\* C6 witness: check_collision returned true and the body was reset
C6_Witness ==
    /\ pc = "randomize_position"
    /\ collided
    /\ Len(occupied_positions) = 1

\* the tick has run its eat and self-collision steps
TickEnd == pc = "draw" \/ (pc = "handle_keys" /\ draws # << >>)

\* C7: a tick that detects a self-collision ends with the body on the single
\* centre cell, direction right, no pending direction, growth flag false and
\* the food on a cell other than the centre; a tick without self-collision
\* does not reset the body.
C7_ResetOnCollision ==
    /\ []((TickEnd /\ collided) =>
            /\ positions = << GridCenter >>
            /\ direction = RIGHT
            /\ next_direction = None
            /\ grew = FALSE
            /\ apple_position \in RandomPositions
            /\ apple_position # GridCenter)
    /\ [][(pc = "check_collision" /\ HeadRepeats(positions)) => collided']_vars
    /\ [][(pc = "check_collision" /\ ~HeadRepeats(positions)) =>
            (~collided' /\ pc' = "draw"
             /\ UNCHANGED <<positions, direction, next_direction, last, grew,
                            apple_position>>)]_vars

\* C7 witness: the frame of a tick that reset the snake has been drawn
C7_Witness ==
    /\ pc = "handle_keys"
    /\ draws # << >>
    /\ collided
    /\ positions = << GridCenter >>

\* C8: the frame of every tick holds a body-colour draw request for every
\* cell of the body.
C8_EveryBodyCellDrawn ==
    (pc = "handle_keys" /\ draws # << >>) =>
        \A i \in 1..Len(positions) :
            \E k \in 1..Len(draws) : draws[k] = Request(positions[i], SNAKE_COLOR, 0)

ArrowDirection(key) ==
    CASE key = "K_UP" -> UP
      [] key = "K_DOWN" -> DOWN
      [] key = "K_LEFT" -> LEFT
      [] key = "K_RIGHT" -> RIGHT

\* the event is an arrow key that is not the opposite of the committed direction
Qualifies(e, dir) ==
    /\ e.type = "KEYDOWN"
    /\ e.key \in Keys
    /\ ArrowDirection(e.key) # Opposite(dir)

LastQualifying(evs, dir) ==
    LET Q == {i \in 1..Len(evs) : Qualifies(evs[i], dir)}
    IN  IF Q = {} THEN None
        ELSE ArrowDirection(evs[CHOOSE i \in Q : \A j \in Q : j <= i].key)

\* C9: after the input collection of a tick the pending direction is the
\* direction of the last event that is not the opposite of the committed
\* direction, which the collection does not change; it stays unset when no
\* event qualifies.
C9_LastQualifyingWins ==
    [][(pc = "handle_keys" /\ pc' = "update_direction") =>
          /\ next_direction' = LastQualifying(events, direction)
          /\ direction' = direction]_vars

\* C9 witness: moving right, up then down then left were pressed: down is
\* pending
C9_Witness ==
    /\ pc = "update_direction"
    /\ direction = RIGHT
    /\ events = << Event("KEYDOWN", "K_UP"), Event("KEYDOWN", "K_DOWN"),
                   Event("KEYDOWN", "K_LEFT") >>
    /\ next_direction = DOWN

FullyOccupied == RandomPositions \subseteq Range(occupied_positions)

\* C10: randomize_position returns eventually when some grid cell is not
\* occupied (a free cell is eventually drawn), and never returns when every
\* grid cell is occupied.
C10_RelocationTermination ==
    /\ (pc = "randomize_position" /\ ~FullyOccupied) ~> (pc = ret)
    /\ [][(pc = "randomize_position" /\ FullyOccupied) =>
            pc' = "randomize_position"]_vars
    /\ [](FullyOccupied => pc = "randomize_position")

\* C10 witness: the loop returned with the only free cell of the grid
C10_Witness ==
    /\ pc = ret
    /\ Cardinality(Range(occupied_positions)) = Cardinality(RandomPositions) - 1
    /\ apple_position \notin Range(occupied_positions)

\* C11: the food position changes only inside a relocation, and after the
\* creation of the apple a relocation starts only in a tick whose head landed
\* on the food or whose body was reset; input collection, direction commit,
\* advance, render and the two tests when they fail leave it unchanged.
C11_FoodChangesOnlyOnEatOrReset ==
    /\ [][apple_position' # apple_position =>
            /\ pc = "randomize_position"
            /\ \/ ret = "handle_keys" /\ draws = << >> /\ ~ate /\ ~collided
               \/ ret = "check_collision" /\ ate
               \/ ret = "draw" /\ collided]_vars
    /\ [][(pc # "randomize_position" /\ pc' = "randomize_position") =>
            \/ pc = "check_apple" /\ HeadPos = apple_position /\ ate'
            \/ pc = "check_collision" /\ HeadRepeats(positions) /\ collided']_vars
    /\ [][(pc \in {"handle_keys", "update_direction", "move", "draw"}) =>
            apple_position' = apple_position]_vars

\* C11 witness: a tick of a two-cell snake with neither eat nor reset is
\* about to render
C11_Witness ==
    /\ pc = "draw"
    /\ ~ate
    /\ ~collided
    /\ Len(positions) = 2
    /\ Truthy(last)

HasQuit(evs) == \E i \in 1..Len(evs) : evs[i].type = "QUIT"

\* the events handled before the first QUIT
BeforeQuit(evs) ==
    SubSeq(evs, 1, (CHOOSE i \in 1..Len(evs) :
                       /\ evs[i].type = "QUIT"
                       /\ \A j \in 1..(i - 1) : evs[j].type # "QUIT") - 1)

\* C12: a Quit event ends the process at once: the pending direction is the
\* one the events before it left, no later event of the poll is applied, the
\* snake and the food are untouched, and no step (commit, advance,
\* relocation, render) is ever taken afterwards; without a Quit event the
\* loop goes on.
C12_QuitEndsProcess ==
    /\ [][(pc = "handle_keys" /\ HasQuit(events)) =>
            /\ pc' = "exited"
            /\ next_direction' = LastQualifying(BeforeQuit(events), direction)
            /\ UNCHANGED <<positions, direction, last, grew, apple_position>>]_vars
    /\ [][(pc = "handle_keys" /\ ~HasQuit(events)) => pc' = "update_direction"]_vars
    /\ [][pc = "exited" => FALSE]_vars
    /\ [](pc = "exited" => draws = << >>)

\* C12 witness: the process has exited with the pending direction an up key
\* before the Quit event left
C12_Witness ==
    /\ pc = "exited"
    /\ direction = RIGHT
    /\ next_direction = UP
    /\ positions = << GridCenter >>

\* C13: at the end of every tick the cells of the body are pairwise distinct.
C13_BodyCellsDistinct == [](TickEnd => AllDistinct(positions))

\* C13 witness: a tick ends with a body of three distinct cells
C13_Witness ==
    /\ pc = "draw"
    /\ Len(positions) = 3
    /\ AllDistinct(positions)
    /\ ~collided

\* C14: on a grid with both dimensions >= 3, whenever the body has at least
\* two cells before an advance, the new head is not the cell that was at
\* index 1 (the neck) before the advance.
C14_NoInstantReversal ==
    [][(pc = "move" /\ Len(positions) >= 2 /\ GRID_WIDTH >= 3 /\ GRID_HEIGHT >= 3) =>
          positions'[1] # positions[2]]_vars

\* C14 witness: a body of two cells has advanced after a change of direction
\* and its head is not on the cell that was its neck
C14_Witness ==
    /\ pc = "check_apple"
    /\ GRID_WIDTH >= 3 /\ GRID_HEIGHT >= 3
    /\ Len(positions) = 2
    /\ Truthy(last)
    /\ direction = UP
    /\ positions[1] # last

\* C15: the direction commit runs exactly once per tick, after the input
\* collection and before the advance; a stored pending direction becomes the
\* committed direction and the pending slot is cleared, otherwise nothing
\* changes; the pending direction is none whenever the advance runs and at
\* the end of every tick.
C15_CommitOncePerTick ==
    /\ [][pc = "handle_keys" => pc' \in {"update_direction", "exited"}]_vars
    /\ [][pc' = "update_direction" => pc = "handle_keys"]_vars
    /\ [][pc = "update_direction" =>
            /\ pc' = "move"
            /\ IF next_direction # None
               THEN direction' = next_direction /\ next_direction' = None
               ELSE UNCHANGED <<direction, next_direction>>
            /\ UNCHANGED <<positions, last, grew, apple_position>>]_vars
    /\ [][pc' = "move" => pc = "update_direction"]_vars
    /\ [][direction' # direction =>
            \/ pc = "update_direction"
            \/ pc = "check_collision" /\ collided']_vars
    /\ [](pc = "move" => next_direction = None)
    /\ [](TickEnd => next_direction = None)

\* C15 witness: a pending direction has been committed and cleared, and the
\* advance is about to run
C15_Witness ==
    /\ pc = "move"
    /\ direction = UP
    /\ next_direction = None
    /\ Len(positions) = 2

\* C16: whenever the loop invokes the relocation of the food (after an eat or
\* after a reset), the body occupies strictly fewer cells than the grid has,
\* so a free cell exists and the relocation can return.
C16_RelocationHasFreeCell ==
    (pc = "randomize_position" /\ ret # "handle_keys") =>
        Range(occupied_positions) # Cells(screen_size)

\* C17: at the end of every tick (at render time) the food cell is not a cell
\* of the body, in the ticks without a relocation too.
C17_FoodOffBodyAtTickEnd ==
    [](TickEnd => \A i \in 1..Len(positions) : positions[i] # apple_position)

\* C17 witness: a tick without an eat and without a reset ends with a body of
\* three cells and the food off the body
C17_Witness ==
    /\ pc = "draw"
    /\ ~ate /\ ~collided
    /\ Len(positions) = 3
    /\ apple_position \notin Range(positions)

\* C18: an eat and a self-collision never happen in the same tick: when the
\* head after the advance is on the food cell it is on no body cell at index
\* >= 1, the collision test of that tick is false, and the growth flag set by
\* the eat is still set at the end of the tick.
C18_NoEatWithCollision ==
    /\ []((pc = "check_apple" /\ HeadPos = apple_position) => ~HeadRepeats(positions))
    /\ [][(pc = "check_collision" /\ ate) => (~collided' /\ grew /\ grew')]_vars
    /\ [](TickEnd => ~(ate /\ collided))
    /\ []((TickEnd /\ ate) => grew)

\* C18 witness: a tick in which a body of three cells has eaten ends with the
\* growth flag set and without a reset
C18_Witness ==
    /\ pc = "draw"
    /\ ate /\ ~collided
    /\ grew
    /\ Len(positions) = 3

\* C19: the erase of the removed tail cell in Snake.draw (last set, growth
\* flag false) never blanks a live segment: the frame of a tick holds no
\* background-colour draw request for a cell of the body.
C19_EraseOffBody ==
    (pc = "handle_keys" /\ draws # << >>) =>
        \A i \in 1..Len(positions) :
            \A k \in 1..Len(draws) :
                draws[k] # Request(positions[i], BOARD_BACKGROUND_COLOR, 0)

\* C20: on a grid with both dimensions >= 4 no tick with a body of 4 cells or
\* less after the advance detects a self-collision; a reset by self-collision
\* only happens with a body of at least 5 cells after the advance.
C20_NoCollisionUpToFour ==
    [][(pc = "check_collision" /\ GRID_WIDTH >= 4 /\ GRID_HEIGHT >= 4) =>
          /\ Len(positions) <= 4 => ~collided'
          /\ collided' => Len(positions) >= 5]_vars

\* C20 witness: a body of 4 cells has advanced onto the cell its tail left and
\* the tick has detected no self-collision
C20_Witness ==
    /\ pc = "draw"
    /\ GRID_WIDTH >= 4 /\ GRID_HEIGHT >= 4
    /\ Len(positions) = 4
    /\ last = HeadPos
    /\ ~collided

\* a body of 5 cells is reset by a self-collision
CollisionAtFive ==
    /\ pc = "check_collision"
    /\ Len(positions) = 5
    /\ HeadRepeats(positions)

====
